---- MODULE Spec2Model ----
(***************************************************************************)
(* State-machine model of the board core of the checkers / draughts        *)
(* packages: BaseBoard.__init__, push, pop, fen, from_fen.                  *)
(*                                                                         *)
(* Squares are 0-based buffer indices, as in the source; the position      *)
(* buffer is a function 0..len-1 -> Int.  Strings are sequences of         *)
(* one-character strings.                                                  *)
(***************************************************************************)
EXTENDS Integers, Sequences, FiniteSets, TLC

(***************************************************************************)
(* Enum values.  draughts/models.py and checkers/models.py are not part of *)
(* the sources at hand; the values are the ones section 3 of the           *)
(* specification gives (empty 0, white man +1, black man -1, K = 3).       *)
(***************************************************************************)
WHITE == 1
BLACK == -1
EMPTY == 0
WHITE_MAN == 1
BLACK_MAN == -1
KING == 3

Figures == {EMPTY, WHITE_MAN, BLACK_MAN, WHITE_MAN * KING, BLACK_MAN * KING}

(***************************************************************************)
(* Bounds of the model.                                                    *)
(***************************************************************************)
\* the board of the push/pop machine has 2*HalfSize rows
HalfSize == 2
\* pushes are enabled while the move stack is shorter than this
MaxStack == 2
\* longest captured_list the move producer hands over
MaxCaptures == 2
\* longest buffer handed to the constructor
MaxBufLen == 33
\* number of squares of FenSquareList the encoded positions have pieces on
NumFenSquares == 4
\* longest white list of the notation strings a caller supplies
MaxFenTokens == 2

\* moves the long game may hold on its stack
MaxRepStack == 9

\* moves on the stack of the game whose caller pushes a kept record again
MaxKeptStack == 3

VARIABLES
    variant,            \* "draughts" or "checkers": which package's BaseBoard
    built,              \* TRUE once __init__ has returned a board
    pos,                \* self._pos
    shape,              \* self.shape[0]
    turn,               \* self.turn
    stack,              \* self._moves_stack
    STARTING_POSITION,  \* the class attribute BaseBoard.STARTING_POSITION (draughts)
    STARTING_COLOR,     \* the class attribute BaseBoard.STARTING_COLOR (draughts)
    text,               \* the notation string most recently returned by fen or held by the caller
    held,               \* a Move object the caller kept from an earlier pop
    caller,             \* the array object the caller handed to the constructor
    peer,               \* self._pos of a second board constructed from the same array object
    aliased,            \* TRUE when the boards' self._pos is the caller's array object itself
    last                \* record of the last call: what was called, with what, and its outcome

\* what the caller holds besides the board
aux == <<held, caller, peer, aliased>>

vars == <<variant, built, pos, shape, turn, stack, STARTING_POSITION, STARTING_COLOR, text, aux, last>>

Range(s) == {s[i] : i \in DOMAIN s}

\* sequences over S without repetition, of length at most k
DistinctSeqs(S, k) ==
    UNION {{s \in [1..j -> S] : \A a, b \in 1..j : a # b => s[a] # s[b]} : j \in 0..k}

\* a buffer of the given length holding the listed pieces, EMPTY elsewhere
Buffer(len, pieces) ==
    [sq \in 0..(len - 1) |-> IF sq \in DOMAIN pieces THEN pieces[sq] ELSE EMPTY]

(***************************************************************************)
(* BaseBoard.__init__                                                      *)
(***************************************************************************)
\* int(np.sqrt(x)) for x >= 0
IntSqrt(x) == CHOOSE r \in 0..x : r * r <= x /\ (r + 1) * (r + 1) > x

\* size = int(np.sqrt(len(self.position) * 2))
BoardSize(len) == IntSqrt(len * 2)

\* the shape test passing every buffer of even length
InvalidShapeOdd(len) == len % 2 # 0

\* the ValueError test of __init__
InvalidShape(len) == BoardSize(len) * BoardSize(len) # len * 2

(***************************************************************************)
(* BaseBoard.push                                                          *)
(***************************************************************************)
\* a switch that hands the move to black whoever had it
FlipToBlack(t) == BLACK

\* Color.WHITE if self.turn == Color.BLACK else Color.BLACK
Flip(t) == IF t = BLACK THEN WHITE ELSE BLACK

\* move.square_list[0]
Src(move) == move.square_list[1]

\* move.square_list[-1]
Tg(move) == move.square_list[Len(move.square_list)]

\* the piece copied to its destination, its origin left as it was
SwapCopy(p, src, tg) ==
    [sq \in DOMAIN p |-> IF sq = tg THEN p[src] ELSE p[sq]]

\* self._pos[src], self._pos[tg] = self._pos[tg], self._pos[src]
Swap(p, src, tg) ==
    [sq \in DOMAIN p |-> IF sq = src THEN p[tg] ELSE IF sq = tg THEN p[src] ELSE p[sq]]

\* the row taken from the full grid's width instead of the buffer's
RowOfGrid(tg, n) == tg \div n

\* tg // (self.shape[0] // 2)
Row(tg, n) == tg \div (n \div 2)

\* the promotion test on destination row and colour alone, piece kind not looked at
IsPromotionAnyKind(p, n, tg) ==
    \/ (Row(tg, n) = 0 /\ p[tg] > 0)
    \/ (Row(tg, n) = n - 1 /\ p[tg] < 0)

\* the "is promotion" condition of draughts push, evaluated after the swap
IsPromotion(p, n, tg) ==
    \/ (Row(tg, n) = 0 /\ p[tg] = WHITE_MAN)
    \/ (Row(tg, n) = n - 1 /\ p[tg] = BLACK_MAN)

\* self._pos[np.array([sq for sq in move.captured_list])] = Figure.EMPTY
ClearCaptured(p, move) ==
    [sq \in DOMAIN p |-> IF sq \in Range(move.captured_list) THEN EMPTY ELSE p[sq]]

\* draughts BaseBoard.push: the board [pos, turn, stack] it leaves
PushDraughts(b, n, move, is_finished) ==
    LET src == Src(move)
        tg == Tg(move)
        swapped == Swap(b.pos, src, tg)
        promo == IsPromotion(swapped, n, tg)
        promoted == IF promo THEN [swapped EXCEPT ![tg] = @ * KING] ELSE swapped
        mv == IF promo THEN [move EXCEPT !.is_promotion = TRUE] ELSE move
    IN  [pos |-> ClearCaptured(promoted, move),
         stack |-> Append(b.stack, mv),
         turn |-> IF is_finished THEN Flip(b.turn) ELSE b.turn]

\* checkers BaseBoard.push: no promotion step
PushCheckers(b, move, is_finished) ==
    [pos |-> ClearCaptured(Swap(b.pos, Src(move), Tg(move)), move),
     stack |-> Append(b.stack, move),
     turn |-> IF is_finished THEN Flip(b.turn) ELSE b.turn]

(***************************************************************************)
(* BaseBoard.pop                                                           *)
(***************************************************************************)
\* every captured square restored with the first recorded entity
RestoreCapturedMerged(p, captured_list, captured_entities, i) ==
    [sq \in DOMAIN p |-> IF sq \in Range(captured_list) THEN captured_entities[1] ELSE p[sq]]

\* for sq, entity in zip(move.captured_list, move.captured_entities): self._pos[sq] = entity
\* (zip stops at the shorter list; a later pair overwrites an earlier one)
RECURSIVE RestoreCaptured(_, _, _, _)
RestoreCaptured(p, captured_list, captured_entities, i) ==
    IF i > Len(captured_list) \/ i > Len(captured_entities)
    THEN p
    ELSE RestoreCaptured([p EXCEPT ![captured_list[i]] = captured_entities[i]],
                         captured_list, captured_entities, i + 1)

\* the demotion left out
DemoteSkipped(v) == v

\* self._pos[tg] //= Figure.KING.value
Demote(v) == v \div KING

\* draughts BaseBoard.pop on a non-empty stack
PopDraughts(b, is_finished) ==
    LET move == b.stack[Len(b.stack)]
        src == Src(move)
        tg == Tg(move)
        demoted == IF move.is_promotion THEN [b.pos EXCEPT ![tg] = Demote(@)] ELSE b.pos
        swapped == Swap(demoted, src, tg)
    IN  [pos |-> RestoreCaptured(swapped, move.captured_list, move.captured_entities, 1),
         stack |-> SubSeq(b.stack, 1, Len(b.stack) - 1),
         turn |-> IF is_finished THEN Flip(b.turn) ELSE b.turn]

\* checkers BaseBoard.pop on a non-empty stack: no demotion step
PopCheckers(b, is_finished) ==
    LET move == b.stack[Len(b.stack)]
        swapped == Swap(b.pos, Src(move), Tg(move))
    IN  [pos |-> RestoreCaptured(swapped, move.captured_list, move.captured_entities, 1),
         stack |-> SubSeq(b.stack, 1, Len(b.stack) - 1),
         turn |-> IF is_finished THEN Flip(b.turn) ELSE b.turn]

(***************************************************************************)
(* The move producer (legal_moves is an extension point: the core takes    *)
(* whatever record the variant hands over).  A legally applicable move:    *)
(* origin holds a piece of the side to move, destination is empty, the     *)
(* captured squares hold pieces of the other colour and captured_entities  *)
(* are their current values, is_promotion is False as constructed.         *)
(***************************************************************************)
Sign(v) == IF v > 0 THEN 1 ELSE IF v < 0 THEN -1 ELSE 0

Own(p, t) == {sq \in DOMAIN p : Sign(p[sq]) = t}

Empties(p) == {sq \in DOMAIN p : p[sq] = EMPTY}

BufLen == 2 * HalfSize * HalfSize

\* destinations the producer's moves are drawn from: a square of row 0, one of a middle row,
\* one of the last row
TargetSquares == {0, (BufLen \div 2) - 1, BufLen - 1}

Targets(p) == Empties(p) \cap TargetSquares

\* squares traversed: origin and destination, with a way-point between them for a multi-leg
\* capture when a further empty target square exists
SquareList(p, src, tg, cl) ==
    LET ways == Targets(p) \ {tg}
    IN  IF Len(cl) < 2 \/ ways = {} THEN <<src, tg>>
        ELSE <<src, CHOOSE w \in ways : \A x \in ways : w <= x, tg>>

LegalMoves(p, t) ==
    UNION {{[square_list |-> SquareList(p, src, tg, cl),
             captured_list |-> cl,
             captured_entities |-> [i \in DOMAIN cl |-> p[cl[i]]],
             is_promotion |-> FALSE] : cl \in DistinctSeqs(Own(p, -t), MaxCaptures)}
           : <<src, tg>> \in Own(p, t) \X Targets(p)}

(***************************************************************************)
(* The board machine                                                       *)
(***************************************************************************)
Board == [pos |-> pos, turn |-> turn, stack |-> stack]

NoMove == [square_list |-> <<>>, captured_list |-> <<>>, captured_entities |-> <<>>,
           is_promotion |-> FALSE]

\* the record of a call: op(arg, move, flag), whether it raised, what move it returned, the
\* board it was made on, and whether it directly follows its counterpart (a pop after a push
\* made with the same flag, a from_fen of the string the preceding fen call returned).
\* It also carries the history of the board at hand: odd, whether an odd number of completed
\* pushes and pops switched the turn, and net, the completed pushes less the completed pops;
\* value is what a query returned
Call(op, flag, move, raised, ret, paired, arg) ==
    LET fresh == op \in {"init", "from_fen"} /\ ~raised
        done  == op \in {"push", "pop"} /\ ~raised
    IN  [op |-> op, flag |-> flag, move |-> move, raised |-> raised, ret |-> ret,
         before |-> Board, paired |-> paired, arg |-> arg, value |-> FALSE,
         odd |-> IF fresh THEN FALSE ELSE last.odd # (done /\ flag),
         net |-> IF fresh THEN 0
                 ELSE IF ~done THEN last.net
                 ELSE IF op = "push" THEN last.net + 1 ELSE last.net - 1]

\* the record of a query that returned value
Answer(op, value, arg) ==
    [Call(op, TRUE, NoMove, FALSE, NoMove, FALSE, arg) EXCEPT !.value = value]

\* the caller holds no record and no array of its own
NoCaller ==
    /\ held = NoMove
    /\ caller = <<>>
    /\ peer = <<>>
    /\ aliased = FALSE

\* STARTING_POSITION = np.array([1] * 12 + [0] * 8 + [-1] * 12, dtype=np.int8)
DefaultStartingPosition == [sq \in 0..31 |-> IF sq < 12 THEN 1 ELSE IF sq < 20 THEN 0 ELSE -1]

\* starting buffers the boards of the machine are constructed from
StartBuffers ==
    {Buffer(BufLen, (2 :> BLACK_MAN) @@ (5 :> BLACK_MAN * KING) @@ (4 :> WHITE_MAN)),
     Buffer(BufLen, (1 :> BLACK_MAN) @@ (4 :> WHITE_MAN) @@ (6 :> WHITE_MAN * KING))}

\* the class attributes as the module leaves them on import
ClassDefaults ==
    /\ STARTING_POSITION = DefaultStartingPosition
    /\ STARTING_COLOR = WHITE

\* the state __init__ leaves: a copy of the buffer, STARTING_COLOR / Color.WHITE to move, empty stack
Init ==
    /\ variant \in {"draughts", "checkers"}
    /\ ClassDefaults
    /\ NoCaller
    /\ text = <<>>
    /\ built = TRUE
    /\ pos \in StartBuffers
    /\ shape = BoardSize(BufLen)
    /\ turn = WHITE
    /\ stack = <<>>
    /\ last = [op |-> "init", flag |-> TRUE, move |-> NoMove, raised |-> FALSE, ret |-> NoMove,
               before |-> [pos |-> <<>>, turn |-> WHITE, stack |-> <<>>], paired |-> FALSE,
               arg |-> pos, value |-> FALSE, odd |-> FALSE, net |-> 0]

PushResult(b, n, move, is_finished) ==
    IF variant = "draughts" THEN PushDraughts(b, n, move, is_finished)
    ELSE PushCheckers(b, move, is_finished)

\* a pop that takes the oldest entry off the stack instead of the newest
PopOldest(b, is_finished) ==
    [PopDraughts(b, is_finished) EXCEPT !.stack = Tail(b.stack)]

PopResult(b, is_finished) ==
    IF variant = "draughts" THEN PopDraughts(b, is_finished) ELSE PopCheckers(b, is_finished)

\* board.push(move, is_finished) with a move of the producer
Push ==
    /\ built
    /\ Len(stack) < MaxStack
    /\ \E move \in LegalMoves(pos, turn), is_finished \in BOOLEAN :
         LET r == PushResult(Board, shape, move, is_finished)
         IN  /\ pos' = r.pos
             /\ turn' = r.turn
             /\ stack' = r.stack
             /\ last' = Call("push", is_finished, move, FALSE, NoMove, FALSE, <<>>)
    /\ UNCHANGED <<variant, built, shape, STARTING_POSITION, STARTING_COLOR, text, aux>>

\* board.pop(is_finished) with moves on the stack: returns the popped record
Pop ==
    /\ built
    /\ stack # <<>>
    /\ \E is_finished \in BOOLEAN :
         LET r == PopResult(Board, is_finished)
         IN  /\ pos' = r.pos
             /\ turn' = r.turn
             /\ stack' = r.stack
             /\ last' = Call("pop", is_finished, NoMove, FALSE, stack[Len(stack)],
                             last.op = "push" /\ last.flag = is_finished, <<>>)
    /\ UNCHANGED <<variant, built, shape, STARTING_POSITION, STARTING_COLOR, text, aux>>

\* pop on an empty stack returning quietly
PopEmptySilent ==
    /\ built
    /\ stack = <<>>
    /\ \E is_finished \in BOOLEAN :
         last' = Call("pop", is_finished, NoMove, FALSE, NoMove, FALSE, <<>>)
    /\ UNCHANGED <<variant, built, pos, shape, turn, stack, STARTING_POSITION, STARTING_COLOR, text, aux>>

\* board.pop(is_finished) on an empty stack: list.pop() raises IndexError at the first statement
PopEmpty ==
    /\ built
    /\ stack = <<>>
    /\ \E is_finished \in BOOLEAN :
         last' = Call("pop", is_finished, NoMove, TRUE, NoMove, FALSE, <<>>)
    /\ UNCHANGED <<variant, built, pos, shape, turn, stack, STARTING_POSITION, STARTING_COLOR, text, aux>>

Next == Push \/ Pop \/ PopEmpty

Spec == Init /\ [][Next]_vars

(***************************************************************************)
(* Construction from a caller's buffer                                     *)
(***************************************************************************)
\* buffers handed to the constructor: every length up to MaxBufLen, empty or with one piece
CtorBuffers ==
    UNION {{Buffer(len, <<>>)}
           \cup {Buffer(len, sq :> f) : sq \in 0..(len - 1), f \in Figures \ {EMPTY}}
           : len \in 0..MaxBufLen}

NoBoard ==
    /\ built = FALSE
    /\ pos = <<>>
    /\ shape = 0
    /\ turn = WHITE
    /\ stack = <<>>

InitCtor ==
    /\ variant \in {"draughts", "checkers"}
    /\ ClassDefaults
    /\ NoCaller
    /\ text = <<>>
    /\ NoBoard
    /\ last = [op |-> "none", flag |-> TRUE, move |-> NoMove, raised |-> FALSE, ret |-> NoMove,
               before |-> [pos |-> <<>>, turn |-> WHITE, stack |-> <<>>], paired |-> FALSE,
               arg |-> <<>>, value |-> FALSE, odd |-> FALSE, net |-> 0]

\* number of entries of a buffer
BufferLen(buffer) == Cardinality(DOMAIN buffer)

\* the first BaseBoard(starting_position) call of a program: raises ValueError and yields no
\* board when the shape test fails, else yields a board holding a copy of the buffer
Construct ==
    /\ ~built /\ last.op = "none"
    /\ \E buffer \in CtorBuffers :
         /\ last' = Call("init", TRUE, NoMove, InvalidShape(BufferLen(buffer)), NoMove, FALSE, buffer)
         /\ IF InvalidShape(BufferLen(buffer))
            THEN UNCHANGED <<built, pos, shape, turn, stack>>
            ELSE /\ built' = TRUE
                 /\ pos' = buffer
                 /\ shape' = BoardSize(BufferLen(buffer))
                 /\ turn' = IF variant = "draughts" THEN STARTING_COLOR ELSE WHITE
                 /\ stack' = <<>>
    /\ UNCHANGED <<variant, STARTING_POSITION, STARTING_COLOR, text, aux>>

NextCtor == Construct

SpecCtor == InitCtor /\ [][NextCtor]_vars

(***************************************************************************)
(* Strings: sequences of one-character strings                             *)
(***************************************************************************)
DigitChars == <<"0", "1", "2", "3", "4", "5", "6", "7", "8", "9">>

\* c.isdigit() for one character
IsDigit(c) == c \in Range(DigitChars)

DigitValue(c) == CHOOSE d \in 0..9 : DigitChars[d + 1] = c

\* str(n) for n >= 0
RECURSIVE Str(_)
Str(n) == IF n < 10 THEN <<DigitChars[n + 1]>> ELSE Str(n \div 10) \o <<DigitChars[(n % 10) + 1]>>

\* int(s) for a string of digits
RECURSIVE IntOf(_)
IntOf(s) ==
    IF s = <<>> THEN 0 ELSE 10 * IntOf(SubSeq(s, 1, Len(s) - 1)) + DigitValue(s[Len(s)])

\* s.isdigit()
IsDigitStr(s) == s # <<>> /\ \A i \in DOMAIN s : IsDigit(s[i])

\* ",".join(parts)
RECURSIVE Join(_)
Join(parts) ==
    IF parts = <<>> THEN <<>>
    ELSE IF Len(parts) = 1 THEN parts[1]
    ELSE parts[1] \o <<",">> \o Join(Tail(parts))

\* s.split(sep) for a one-character separator
RECURSIVE SplitOn(_, _)
SplitOn(s, sep) ==
    LET hits == {i \in DOMAIN s : s[i] = sep}
    IN  IF hits = {} THEN <<s>>
        ELSE LET i == CHOOSE h \in hits : \A g \in hits : h <= g
             IN  <<SubSeq(s, 1, i - 1)>> \o SplitOn(SubSeq(s, i + 1, Len(s)), sep)

\* fen.upper(), on the letters notation strings are written with
UpperChar(c) ==
    CASE c = "w" -> "W" [] c = "b" -> "B" [] c = "k" -> "K" [] c = "g" -> "G"
      [] c = "p" -> "P" [] c = "f" -> "F" [] c = "e" -> "E" [] c = "n" -> "N"
      [] OTHER -> c

Upper(s) == [i \in DOMAIN s |-> UpperChar(s[i])]

\* s.replace(old, new): every non-overlapping occurrence, left to right
RECURSIVE ReplaceAll(_, _, _)
ReplaceAll(s, old, new) ==
    IF Len(s) < Len(old) THEN s
    ELSE IF SubSeq(s, 1, Len(old)) = old
         THEN new \o ReplaceAll(SubSeq(s, Len(old) + 1, Len(s)), old, new)
         ELSE <<s[1]>> \o ReplaceAll(Tail(s), old, new)

\* the smallest element of a set of indices, 0 for the empty set (re.search finding nothing)
First(S) == IF S = {} THEN 0 ELSE CHOOSE i \in S : \A j \in S : i <= j

\* the end of the longest run of characters of class cls that starts at index i
RunEnd(s, i, cls) ==
    LET stops == {j \in i..Len(s) : s[j] \notin cls}
    IN  IF stops = {} THEN Len(s) ELSE First(stops) - 1

(***************************************************************************)
(* BaseBoard.fen                                                           *)
(***************************************************************************)
\* COLORS_REPR = {Color.WHITE: "W", Color.BLACK: "B"}
COLORS_REPR(t) == IF t = WHITE THEN "W" ELSE "B"

\* "K" * bool(self._pos[sq] < -1) + str(sq + 1) for sq in np.where(self.position < 0)[0]
RECURSIVE NegativeSquares(_, _)
NegativeSquares(p, sq) ==
    IF sq >= Cardinality(DOMAIN p) THEN <<>>
    ELSE (IF p[sq] < 0
          THEN <<(IF p[sq] < -1 THEN <<"K">> ELSE <<>>) \o Str(sq + 1)>>
          ELSE <<>>) \o NegativeSquares(p, sq + 1)

\* "K" * bool(self._pos[sq] > 1) + str(sq + 1) for sq in np.where(self.position > 0)[0]
RECURSIVE PositiveSquares(_, _)
PositiveSquares(p, sq) ==
    IF sq >= Cardinality(DOMAIN p) THEN <<>>
    ELSE (IF p[sq] > 0
          THEN <<(IF p[sq] > 1 THEN <<"K">> ELSE <<>>) \o Str(sq + 1)>>
          ELSE <<>>) \o PositiveSquares(p, sq + 1)

\* "".join(fen_components)
Fen(p, t) ==
    <<"[", "F", "E", "N", " ", "\"", "W", ":", COLORS_REPR(t), ":", "W">>
    \o Join(NegativeSquares(p, 0))
    \o <<":", "B">>
    \o Join(PositiveSquares(p, 0))
    \o <<"\"", "]">>

(***************************************************************************)
(* BaseBoard.from_fen                                                      *)
(***************************************************************************)
WB == {"W", "B"}

\* the character class [0-9K,]
ListChars == Range(DigitChars) \cup {"K", ","}

\* re_premove.sub("", fen) with re_premove = (G[0-9]+|P[0-9]+)(,|)
RECURSIVE RemovePremoves(_)
RemovePremoves(s) ==
    IF s = <<>> THEN <<>>
    ELSE IF Len(s) >= 2 /\ s[1] \in {"G", "P"} /\ IsDigit(s[2])
         THEN LET digitsEnd == RunEnd(s, 2, Range(DigitChars))
                  matchEnd == IF digitsEnd < Len(s) /\ s[digitsEnd + 1] = ","
                              THEN digitsEnd + 1 ELSE digitsEnd
              IN  RemovePremoves(SubSeq(s, matchEnd + 1, Len(s)))
         ELSE <<s[1]>> \o RemovePremoves(Tail(s))

\* re_prefix.search(fen) with re_prefix = [WB]:[WB]:[WB]; the index of the match, 0 for None
PrefixSearch(s) ==
    First({i \in 1..(Len(s) - 4) :
             /\ s[i] \in WB /\ s[i + 1] = ":" /\ s[i + 2] \in WB /\ s[i + 3] = ":"
             /\ s[i + 4] \in WB})

\* if prefix: fen = fen.replace(prefix, prefix[2:])
StripPrefix(s) ==
    LET i == PrefixSearch(s)
    IN  IF i = 0 THEN s
        ELSE ReplaceAll(s, SubSeq(s, i, i + 4), SubSeq(s, i + 2, i + 4))

\* re_turn.search(fen) with re_turn = [WB]: ; the index of the match, 0 for None
TurnSearch(s) == First({i \in 1..(Len(s) - 1) : s[i] \in WB /\ s[i + 1] = ":"})

\* re.compile(letter + "[0-9K,]+").search(fen); the index of the match, 0 for None
ListSearch(s, letter) ==
    First({i \in 1..(Len(s) - 1) : s[i] = letter /\ s[i + 1] \in ListChars})

\* .group(0).replace(letter, "") of a match at index i
ListText(s, i, letter) ==
    SelectSeq(SubSeq(s, i, RunEnd(s, i + 1, ListChars)), LAMBDA c : c # letter)

\* range(1, cls.STARTING_POSITION.shape[0] + 1)
BoardRange(p) == 1..Cardinality(DOMAIN p)

\* __populate_from_list from entry i on: the buffer it leaves, and whether it raised ValueError
RECURSIVE PopulateFromList(_, _, _, _)
PopulateFromList(p, fen_list, i, color) ==
    IF i > Len(fen_list) THEN [position |-> p, raised |-> FALSE]
    ELSE LET sq == fen_list[i]
         IN  IF IsDigitStr(sq) /\ IntOf(sq) \in BoardRange(p)
             THEN PopulateFromList([p EXCEPT ![IntOf(sq) - 1] = color], fen_list, i + 1, color)
             ELSE IF /\ sq # <<>> /\ sq[1] = "K"
                     /\ IsDigitStr(Tail(sq)) /\ IntOf(Tail(sq)) \in BoardRange(p)
                  THEN PopulateFromList([p EXCEPT ![IntOf(Tail(sq)) - 1] = color * KING],
                                        fen_list, i + 1, color)
                  ELSE [position |-> p, raised |-> TRUE]

\* the try block of from_fen: white list, then black list; the first ValueError ends the
\* block and is logged, not raised
Populate(zeros, white, black) ==
    LET w == PopulateFromList(zeros, SplitOn(white, ","), 1, WHITE)
    IN  IF w.raised THEN w.position
        ELSE PopulateFromList(w.position, SplitOn(black, ","), 1, BLACK).position

\* from_fen(fen) with the class attributes as given: the error it raises ("" for none) and
\* the class attributes it leaves; without error the board returned is built from them
FromFenResult(fen, starting_position, starting_color) ==
    LET f == StripPrefix(RemovePremoves(Upper(fen)))
        t == TurnSearch(f)
        w == ListSearch(f, "W")
        b == ListSearch(f, "B")
        zeros == [sq \in DOMAIN starting_position |-> 0]
    IN  IF t = 0 \/ w = 0 \/ b = 0
        THEN [error |-> "AttributeError", position |-> starting_position,
              color |-> starting_color]
        ELSE LET white == ListText(f, w, "W")
                 black == ListText(f, b, "B")
             IN  IF Len(<<f[t]>>) # 1 \/ (Len(white) = 0 /\ Len(black) = 0)
                 THEN [error |-> "ValueError", position |-> zeros, color |-> starting_color]
                 ELSE LET p == Populate(zeros, white, black)
                      IN  [error |-> IF InvalidShape(Cardinality(DOMAIN p))
                                     THEN "ValueError" ELSE "",
                           position |-> p,
                           color |-> IF f[t] = "W" THEN WHITE ELSE BLACK]

(***************************************************************************)
(* The codec machine: boards being encoded, strings being decoded          *)
(***************************************************************************)
\* squares the encoded positions have pieces on (0-based): 10, 18, 12, 22, 1, 32 in notation
FenSquareList == <<9, 17, 11, 21, 0, 31>>

FenSquares == {FenSquareList[i] : i \in 1..NumFenSquares}

FenPositions ==
    {Buffer(Cardinality(DOMAIN DefaultStartingPosition), pieces) : pieces \in [FenSquares -> Figures]}

\* square tokens of the strings a caller supplies: in range, and just out of range
FenNumbers == {0, 7, 32, 33}

FenTokens == {Str(n) : n \in FenNumbers} \cup {<<"K">> \o Str(n) : n \in FenNumbers}

TokenLists(k) == UNION {[1..j -> FenTokens] : j \in 1..k}

\* a notation string as the docstring of fen writes it: [FEN "T:Wlist:Blist"]
MakeFen(t, white, black) ==
    <<"[", "F", "E", "N", " ", "\"", t, ":", "W">> \o Join(white)
    \o <<":", "B">> \o Join(black) \o <<"\"", "]">>

FenInputs ==
    {MakeFen(t, white, black) : t \in WB, white \in TokenLists(MaxFenTokens), black \in TokenLists(1)}

NoCall ==
    [op |-> "none", flag |-> TRUE, move |-> NoMove, raised |-> FALSE, ret |-> NoMove,
     before |-> [pos |-> <<>>, turn |-> WHITE, stack |-> <<>>], paired |-> FALSE, arg |-> <<>>,
     value |-> FALSE, odd |-> FALSE, net |-> 0]

\* either a board in some position with either side to move, or no board and a string at hand
InitFen ==
    /\ variant = "draughts"
    /\ ClassDefaults
    /\ NoCaller
    /\ last = NoCall
    /\ \/ /\ built = TRUE
          /\ pos \in FenPositions
          /\ shape = BoardSize(Cardinality(DOMAIN pos))
          /\ turn \in {WHITE, BLACK}
          /\ stack = <<>>
          /\ text = <<>>
       \/ /\ NoBoard
          /\ text \in FenInputs

\* board.fen
FenCall ==
    /\ built
    /\ text' = Fen(pos, turn)
    /\ last' = Call("fen", TRUE, NoMove, FALSE, NoMove, FALSE, <<>>)
    /\ UNCHANGED <<variant, built, pos, shape, turn, stack, STARTING_POSITION, STARTING_COLOR, aux>>

\* BaseBoard.from_fen(text): on success the board at hand is the one returned
FromFen ==
    /\ text # <<>>
    /\ LET r == FromFenResult(text, STARTING_POSITION, STARTING_COLOR)
       IN  /\ last' = Call("from_fen", TRUE, NoMove, r.error # "", NoMove, last.op = "fen", text)
           /\ STARTING_POSITION' = r.position
           /\ STARTING_COLOR' = r.color
           /\ IF r.error = ""
              THEN /\ built' = TRUE
                   /\ pos' = r.position
                   /\ shape' = BoardSize(Cardinality(DOMAIN r.position))
                   /\ turn' = r.color
                   /\ stack' = <<>>
              ELSE UNCHANGED <<built, pos, shape, turn, stack>>
    /\ UNCHANGED <<variant, text, aux>>

NextFen == FenCall \/ FromFen

SpecFen == InitFen /\ [][NextFen]_vars

(***************************************************************************)
(* Boards constructed from a raw buffer after strings were decoded         *)
(***************************************************************************)
\* BaseBoard(starting_position) with the raw buffer of the standard starting position, after
\* a from_fen call: __init__ copies the buffer and reads self.STARTING_COLOR, which is the
\* class attribute
ConstructRaw ==
    /\ last.op = "from_fen"
    /\ LET buffer == DefaultStartingPosition
       IN  /\ ~InvalidShape(BufferLen(buffer))
           /\ built' = TRUE
           /\ pos' = buffer
           /\ shape' = BoardSize(BufferLen(buffer))
           /\ turn' = STARTING_COLOR
           /\ stack' = <<>>
           /\ last' = Call("init", TRUE, NoMove, FALSE, NoMove, FALSE, buffer)
    /\ UNCHANGED <<variant, STARTING_POSITION, STARTING_COLOR, text, aux>>

NextShared == FenCall \/ FromFen \/ ConstructRaw

SpecShared == InitFen /\ [][NextShared]_vars

(***************************************************************************)
(* Termination queries, on a game long enough to repeat itself             *)
(***************************************************************************)
\* a repetition test that compares the last move with the fifth from last only
IsThreefoldTwice(s) ==
    IF Len(s) >= 9
    THEN s[Len(s)].square_list = s[Len(s) - 4].square_list
    ELSE FALSE

\* is_threefold_repetition: _moves_stack[-1], [-5] and [-9] of a stack of nine or more
IsThreefoldRepetition(s) ==
    IF Len(s) >= 9
    THEN /\ s[Len(s)].square_list = s[Len(s) - 4].square_list
         /\ s[Len(s) - 4].square_list = s[Len(s) - 8].square_list
    ELSE FALSE

\* a termination test that wants both a draw and no legal move
GameOverBoth(is_draw, legal_moves) == is_draw /\ legal_moves = {}

\* game_over: self.is_draw or not bool(list(self.legal_moves)), with the two values the
\* variant's overrides supply
GameOver(is_draw, legal_moves) == is_draw \/ legal_moves = {}

\* the squares the kings of the long game shuttle between
RepSquares == {0, 3, 4, 7}

\* legal_moves of the long game's variant: a piece of the side to move steps to an empty
\* square of RepSquares, capturing nothing
RepMoves(p, t) ==
    {[square_list |-> <<src, tg>>, captured_list |-> <<>>, captured_entities |-> <<>>,
      is_promotion |-> FALSE] : <<src, tg>> \in Own(p, t) \X (Empties(p) \cap RepSquares)}

\* a king each, or a lone white king
RepBuffers ==
    {Buffer(BufLen, (4 :> WHITE_MAN * KING) @@ (3 :> BLACK_MAN * KING)),
     Buffer(BufLen, (4 :> WHITE_MAN * KING))}

InitRep ==
    /\ variant = "draughts"
    /\ ClassDefaults
    /\ NoCaller
    /\ text = <<>>
    /\ built = TRUE
    /\ pos \in RepBuffers
    /\ shape = BoardSize(BufLen)
    /\ turn = STARTING_COLOR
    /\ stack = <<>>
    /\ last = [op |-> "init", flag |-> TRUE, move |-> NoMove, raised |-> FALSE, ret |-> NoMove,
               before |-> [pos |-> <<>>, turn |-> WHITE, stack |-> <<>>], paired |-> FALSE,
               arg |-> pos, value |-> FALSE, odd |-> FALSE, net |-> 0]

\* board.push(move) with a move of the long game
Play ==
    /\ Len(stack) < MaxRepStack
    /\ \E move \in RepMoves(pos, turn) :
         LET r == PushResult(Board, shape, move, TRUE)
         IN  /\ pos' = r.pos
             /\ turn' = r.turn
             /\ stack' = r.stack
             /\ last' = Call("push", TRUE, move, FALSE, NoMove, FALSE, <<>>)
    /\ UNCHANGED <<variant, built, shape, STARTING_POSITION, STARTING_COLOR, text, aux>>

\* board.pop()
TakeBack ==
    /\ stack # <<>>
    /\ LET r == PopResult(Board, TRUE)
       IN  /\ pos' = r.pos
           /\ turn' = r.turn
           /\ stack' = r.stack
           /\ last' = Call("pop", TRUE, NoMove, FALSE, stack[Len(stack)], last.op = "push", <<>>)
    /\ UNCHANGED <<variant, built, shape, STARTING_POSITION, STARTING_COLOR, text, aux>>

\* board.is_threefold_repetition
AskThreefold ==
    /\ last' = Answer("is_threefold_repetition", IsThreefoldRepetition(stack), <<>>)
    /\ UNCHANGED <<variant, built, pos, shape, turn, stack, STARTING_POSITION, STARTING_COLOR, text, aux>>

\* board.game_over of a variant whose is_draw answers is_draw (recorded as the argument) and
\* whose legal_moves is RepMoves
AskGameOver ==
    /\ \E is_draw \in BOOLEAN :
         last' = Answer("game_over", GameOver(is_draw, RepMoves(pos, turn)), is_draw)
    /\ UNCHANGED <<variant, built, pos, shape, turn, stack, STARTING_POSITION, STARTING_COLOR, text, aux>>

NextRep == Play \/ TakeBack \/ AskThreefold \/ AskGameOver

SpecRep == InitRep /\ [][NextRep]_vars

(***************************************************************************)
(* The move stack as a log: pushes, pops and the calls that only read      *)
(***************************************************************************)
RECURSIVE FriendlyFrom(_, _, _)
\* the loop of friendly_form from buffer index idx on: a 0 before a cell that does not open
\* a row of the buffer, two more before the first cell of every second row but the first
FriendlyFrom(p, n, idx) ==
    IF idx >= Cardinality(DOMAIN p) THEN <<>>
    ELSE (IF idx % (n \div 2) # 0 THEN <<0>> ELSE <<>>)
         \o (IF idx % n = 0 /\ idx # 0 THEN <<0, 0>> ELSE <<>>)
         \o <<p[idx]>>
         \o FriendlyFrom(p, n, idx + 1)

\* friendly_form: new_pos = [0], the loop, new_pos.append(0)
FriendlyForm(p, n) == <<0>> \o FriendlyFrom(p, n, 0) \o <<0>>

\* board.push(move, is_finished) with a move of the long game's producer, on a short stack
PushShort ==
    /\ Len(stack) < MaxStack
    /\ \E move \in RepMoves(pos, turn), is_finished \in BOOLEAN :
         LET r == PushResult(Board, shape, move, is_finished)
         IN  /\ pos' = r.pos
             /\ turn' = r.turn
             /\ stack' = r.stack
             /\ last' = Call("push", is_finished, move, FALSE, NoMove, FALSE, <<>>)
    /\ UNCHANGED <<variant, built, shape, STARTING_POSITION, STARTING_COLOR, text, aux>>

\* board.friendly_form, which __repr__ prints
Show ==
    /\ last' = Answer("friendly_form", FriendlyForm(pos, shape), <<>>)
    /\ UNCHANGED <<variant, built, pos, shape, turn, stack, STARTING_POSITION, STARTING_COLOR, text, aux>>

NextLog == PushShort \/ Pop \/ PopEmpty \/ FenCall \/ AskThreefold \/ AskGameOver \/ Show

SpecLog == InitRep /\ [][NextLog]_vars

(***************************************************************************)
(* Two boards constructed from one array of the caller                     *)
(***************************************************************************)
\* a board that keeps the caller's array object as its buffer
BorrowArray(buffer) == [cells |-> buffer, own |-> FALSE]

\* self._pos = starting_position.copy(): a new array object with the same cells
OwnArray(buffer) == [cells |-> buffer, own |-> TRUE]

\* the caller has an array and no board yet
InitOwn ==
    /\ variant \in {"draughts", "checkers"}
    /\ ClassDefaults
    /\ text = <<>>
    /\ NoBoard
    /\ held = NoMove
    /\ caller \in StartBuffers
    /\ peer = <<>>
    /\ aliased = FALSE
    /\ last = [op |-> "none", flag |-> TRUE, move |-> NoMove, raised |-> FALSE, ret |-> NoMove,
               before |-> [pos |-> <<>>, turn |-> WHITE, stack |-> <<>>], paired |-> FALSE,
               arg |-> <<>>, value |-> FALSE, odd |-> FALSE, net |-> 0]

\* board = BaseBoard(caller); other = BaseBoard(caller)
ConstructBoth ==
    /\ ~built
    /\ ~InvalidShape(BufferLen(caller))
    /\ LET array == OwnArray(caller)
       IN  /\ pos' = array.cells
           /\ peer' = array.cells
           /\ aliased' = ~array.own
    /\ built' = TRUE
    /\ shape' = BoardSize(BufferLen(caller))
    /\ turn' = IF variant = "draughts" THEN STARTING_COLOR ELSE WHITE
    /\ stack' = <<>>
    /\ last' = Call("init", TRUE, NoMove, FALSE, NoMove, FALSE, caller)
    /\ UNCHANGED <<variant, STARTING_POSITION, STARTING_COLOR, text, held, caller>>

\* the cells of an array the caller or the other board holds, after board wrote new_pos to its
\* buffer: the same cells when the buffer is that very array object
Seen(array, new_pos) == IF aliased THEN new_pos ELSE array

\* board.push(move, is_finished) on the first of the two boards
PushFirst ==
    /\ built
    /\ Len(stack) < MaxStack
    /\ \E move \in LegalMoves(pos, turn), is_finished \in BOOLEAN :
         LET r == PushResult(Board, shape, move, is_finished)
         IN  /\ pos' = r.pos
             /\ turn' = r.turn
             /\ stack' = r.stack
             /\ caller' = Seen(caller, r.pos)
             /\ peer' = Seen(peer, r.pos)
             /\ last' = Call("push", is_finished, move, FALSE, NoMove, FALSE, <<>>)
    /\ UNCHANGED <<variant, built, shape, STARTING_POSITION, STARTING_COLOR, text, held, aliased>>

\* board.pop(is_finished) on the first of the two boards
PopFirst ==
    /\ built
    /\ stack # <<>>
    /\ \E is_finished \in BOOLEAN :
         LET r == PopResult(Board, is_finished)
         IN  /\ pos' = r.pos
             /\ turn' = r.turn
             /\ stack' = r.stack
             /\ caller' = Seen(caller, r.pos)
             /\ peer' = Seen(peer, r.pos)
             /\ last' = Call("pop", is_finished, NoMove, FALSE, stack[Len(stack)],
                             last.op = "push" /\ last.flag = is_finished, <<>>)
    /\ UNCHANGED <<variant, built, shape, STARTING_POSITION, STARTING_COLOR, text, held, aliased>>

NextOwn == ConstructBoth \/ PushFirst \/ PopFirst

SpecOwn == InitOwn /\ [][NextOwn]_vars

(***************************************************************************)
(* A caller that keeps the record a pop returned and pushes it again       *)
(***************************************************************************)
\* the squares the pieces of this game move between
KeptSquares == {0, 3, 4}

\* legal_moves of this game's variant: a piece of the side to move steps to an empty square
\* of KeptSquares, capturing nothing; the record is new, is_promotion False
KeptMoves(p, t) ==
    {[square_list |-> <<src, tg>>, captured_list |-> <<>>, captured_entities |-> <<>>,
      is_promotion |-> FALSE] : <<src, tg>> \in Own(p, t) \X (Empties(p) \cap KeptSquares)}

\* a white man one step from promotion and a white king behind it
KeptBuffer == Buffer(BufLen, (4 :> WHITE_MAN) @@ (6 :> WHITE_MAN * KING))

InitKept ==
    /\ variant = "draughts"
    /\ ClassDefaults
    /\ NoCaller
    /\ text = <<>>
    /\ built = TRUE
    /\ pos = KeptBuffer
    /\ shape = BoardSize(BufLen)
    /\ turn = STARTING_COLOR
    /\ stack = <<>>
    /\ last = [op |-> "init", flag |-> TRUE, move |-> NoMove, raised |-> FALSE, ret |-> NoMove,
               before |-> [pos |-> <<>>, turn |-> WHITE, stack |-> <<>>], paired |-> FALSE,
               arg |-> pos, value |-> FALSE, odd |-> FALSE, net |-> 0]

\* board.push(move, is_finished) with a new record of the producer
PushNew ==
    /\ Len(stack) < MaxKeptStack
    /\ \E move \in KeptMoves(pos, turn), is_finished \in BOOLEAN :
         LET r == PushResult(Board, shape, move, is_finished)
         IN  /\ pos' = r.pos
             /\ turn' = r.turn
             /\ stack' = r.stack
             /\ last' = Call("push", is_finished, move, FALSE, NoMove, FALSE, <<>>)
    /\ UNCHANGED <<variant, built, shape, STARTING_POSITION, STARTING_COLOR, text, aux>>

\* move = board.pop(is_finished): the caller keeps the object pop returns
PopKeep ==
    /\ stack # <<>>
    /\ \E is_finished \in BOOLEAN :
         LET r == PopResult(Board, is_finished)
         IN  /\ pos' = r.pos
             /\ turn' = r.turn
             /\ stack' = r.stack
             /\ held' = stack[Len(stack)]
             /\ last' = Call("pop", is_finished, NoMove, FALSE, stack[Len(stack)],
                             last.op = "push" /\ last.flag = is_finished, <<>>)
    /\ UNCHANGED <<variant, built, shape, STARTING_POSITION, STARTING_COLOR, text, caller, peer, aliased>>

\* board.push(move, is_finished) with the object kept, where it is legally applicable again:
\* its origin holds a piece of the side to move and its destination is empty.  push writes
\* is_promotion on that same object
PushKept ==
    /\ Len(stack) < MaxKeptStack
    /\ held # NoMove
    /\ Src(held) \in Own(pos, turn)
    /\ pos[Tg(held)] = EMPTY
    /\ \E is_finished \in BOOLEAN :
         LET r == PushResult(Board, shape, held, is_finished)
         IN  /\ pos' = r.pos
             /\ turn' = r.turn
             /\ stack' = r.stack
             /\ held' = r.stack[Len(r.stack)]
             /\ last' = Call("push", is_finished, held, FALSE, NoMove, FALSE, <<>>)
    /\ UNCHANGED <<variant, built, shape, STARTING_POSITION, STARTING_COLOR, text, caller, peer, aliased>>

NextKept == PushNew \/ PopKeep \/ PushKept

SpecKept == InitKept /\ [][NextKept]_vars

(***************************************************************************)
(* A push that raises: captured_list names an index outside the buffer     *)
(***************************************************************************)
\* indices numpy accepts for a buffer p: 0 .. len-1 and, counted from the end, -len .. -1
ValidIndex(p, sq) == sq >= -Cardinality(DOMAIN p) /\ sq < Cardinality(DOMAIN p)

\* the board push leaves when the captured-squares assignment raises IndexError: the swap and
\* (draughts) the promotion are done, the append and the turn switch are not reached
PushAborted(b, n, move) ==
    LET swapped == Swap(b.pos, Src(move), Tg(move))
        promo == variant = "draughts" /\ IsPromotion(swapped, n, Tg(move))
    IN  [pos |-> IF promo THEN [swapped EXCEPT ![Tg(move)] = @ * KING] ELSE swapped,
         stack |-> b.stack,
         turn |-> b.turn]

\* records a caller builds itself: a move of the producer, given a captured_list that names
\* the first index past the end of the buffer
OutsideMoves(p, t) ==
    {[move EXCEPT !.captured_list = <<Cardinality(DOMAIN p)>>, !.captured_entities = <<EMPTY>>]
        : move \in KeptMoves(p, t)}

\* board.push(move, is_finished) with such a record, which the caller builds once and keeps
PushOutside ==
    /\ built
    /\ held = NoMove
    /\ Len(stack) < MaxKeptStack
    /\ \E move \in OutsideMoves(pos, turn), is_finished \in BOOLEAN :
         /\ \E sq \in Range(move.captured_list) : ~ValidIndex(pos, sq)
         /\ LET r == PushAborted(Board, shape, move)
            IN  /\ pos' = r.pos
                /\ turn' = r.turn
                /\ stack' = r.stack
                /\ held' = move
                /\ last' = Call("push", is_finished, move, TRUE, NoMove, FALSE, <<>>)
    /\ UNCHANGED <<variant, built, shape, STARTING_POSITION, STARTING_COLOR, text, caller, peer, aliased>>

\* the boards of either package, on the starting buffer of the game above
InitRaise ==
    /\ variant \in {"draughts", "checkers"}
    /\ ClassDefaults
    /\ NoCaller
    /\ text = <<>>
    /\ built = TRUE
    /\ pos = KeptBuffer
    /\ shape = BoardSize(BufLen)
    /\ turn = WHITE
    /\ stack = <<>>
    /\ last = [op |-> "init", flag |-> TRUE, move |-> NoMove, raised |-> FALSE, ret |-> NoMove,
               before |-> [pos |-> <<>>, turn |-> WHITE, stack |-> <<>>], paired |-> FALSE,
               arg |-> pos, value |-> FALSE, odd |-> FALSE, net |-> 0]

NextRaise == PushNew \/ Pop \/ PopEmpty \/ PushOutside

SpecRaise == InitRaise /\ [][NextRaise]_vars

(***************************************************************************)
(* Claims about the board machine (specification Spec)                     *)
(***************************************************************************)
PoppedMove == last.ret

PushedMove == last.move

\* C1: round-trip law.  A pop made directly after the push of a legally applicable move,
\* with the same turn-switch flag, leaves the position buffer, the side to move and the
\* move stack exactly as they were before that push (promotions and captures included).
C1_RoundTrip ==
    [][(last'.op = "pop" /\ ~last'.raised /\ last'.paired)
         => /\ pos' = last.before.pos
            /\ turn' = last.before.turn
            /\ stack' = last.before.stack]_vars

\* a pop with the flag off has just undone a push that promoted a man and captured two pieces
C1_Witness ==
    /\ variant = "draughts"
    /\ last.op = "pop" /\ ~last.raised /\ last.paired /\ ~last.flag
    /\ PoppedMove.is_promotion
    /\ Len(PoppedMove.captured_list) = 2

\* C2: pop on an empty move stack raises and leaves buffer, side to move and stack unchanged.
C2_EmptyPop ==
    (last.op = "pop" /\ last.before.stack = <<>>)
        => /\ last.raised
           /\ pos = last.before.pos
           /\ turn = last.before.turn
           /\ stack = <<>>

\* pop(is_finished=True) raised on a board that earlier moves had left with black to move
C2_Witness ==
    /\ last.op = "pop" /\ last.raised /\ last.flag
    /\ turn = BLACK /\ stack = <<>>

\* C3: promotion rule of draughts push.  If the piece that arrived on the destination is a
\* white man and the destination's row (index divided by n/2, rounded down) is 0, or a black
\* man and that row is n-1, the destination holds that colour's king and the pushed record's
\* is_promotion is true; otherwise the piece's value is unchanged and is_promotion is as the
\* producer left it.
C3_Promotion ==
    (variant = "draughts" /\ last.op = "push")
        => LET tg == Tg(PushedMove)
               arrived == last.before.pos[Src(PushedMove)]
               row == tg \div (shape \div 2)
               pushed == stack[Len(stack)]
           IN  IF \/ (arrived = WHITE_MAN /\ row = 0)
                  \/ (arrived = BLACK_MAN /\ row = shape - 1)
               THEN pos[tg] = arrived * KING /\ pushed.is_promotion
               ELSE pos[tg] = arrived /\ pushed.is_promotion = PushedMove.is_promotion

\* a black man has just been pushed onto the last row and is now a black king
C3_Witness ==
    /\ variant = "draughts" /\ last.op = "push"
    /\ last.before.pos[Src(PushedMove)] = BLACK_MAN
    /\ Tg(PushedMove) = BufLen - 1
    /\ pos[Tg(PushedMove)] = BLACK_MAN * KING
    /\ stack[Len(stack)].is_promotion

\* C4: every cell of the buffer is one of 0, +1, -1, +K, -K after any sequence of pushes and
\* pops; no cell ever exceeds K in magnitude.
C4_CellValues == \A sq \in DOMAIN pos : pos[sq] \in Figures

\* a white king has just been pushed onto row 0 and is still a white king
C4_Witness ==
    /\ variant = "draughts" /\ last.op = "push"
    /\ last.before.pos[Src(PushedMove)] = WHITE_MAN * KING
    /\ Tg(PushedMove) = 0
    /\ pos[0] = WHITE_MAN * KING

\* C5: capture restoration.  After pop returns a move, each square of its captured_list holds
\* the entity at the same position of its captured_entities.
C5_CaptureRestore ==
    (last.op = "pop" /\ ~last.raised)
        => \A i \in DOMAIN PoppedMove.captured_list :
              pos[PoppedMove.captured_list[i]] = PoppedMove.captured_entities[i]

\* a move that captured a black king and a black man, in that order, has just been undone
C5_Witness ==
    /\ last.op = "pop" /\ ~last.raised
    /\ PoppedMove.captured_entities = <<BLACK_MAN * KING, BLACK_MAN>>
    /\ PoppedMove.captured_list = <<5, 2>>
    /\ pos[5] = BLACK_MAN * KING /\ pos[2] = BLACK_MAN

\* the colour that is not t
OtherColour(t) == IF t = WHITE THEN BLACK ELSE WHITE

\* C12: a completed push or pop made with the turn switch on hands the move to the other
\* colour; made with the switch off it leaves the side to move as it was and still rewrites
\* the buffer and lengthens or shortens the stack by one; so the side to move is the starting
\* colour (white) exactly when an even number of completed pushes and pops switched the turn
C12_TurnSwitch ==
    /\ (turn = WHITE) <=> ~last.odd
    /\ (last.op \in {"push", "pop"} /\ ~last.raised)
           => /\ turn = IF last.flag THEN OtherColour(last.before.turn) ELSE last.before.turn
              /\ pos # last.before.pos
              /\ Len(stack) = Len(last.before.stack) + (IF last.op = "push" THEN 1 ELSE -1)

\* a pop that does not switch, after a push that did and one that did not: black stays to move
C12_Witness ==
    /\ last.op = "pop" /\ ~last.raised /\ ~last.flag
    /\ Len(last.before.stack) = 2
    /\ last.odd /\ turn = BLACK

\* C14: after push(m) of a legal move the destination holds the piece that stood on the origin,
\* as a king if the promotion rule of the draughts board applies to it, the origin holds what
\* the destination held (nothing), every captured square is empty, every other square is as
\* before, and the stack is the earlier stack with m on top
C14_PushEffect ==
    last.op = "push"
        => LET b == last.before
               src == Src(PushedMove)
               tg == Tg(PushedMove)
               moved == b.pos[src]
               half == shape \div 2
               len == Cardinality(DOMAIN pos)
               promotes == /\ variant = "draughts"
                           /\ \/ moved = WHITE_MAN /\ tg < half
                              \/ moved = BLACK_MAN /\ tg >= len - half
               top == stack[Len(stack)]
           IN  /\ pos[tg] = IF promotes THEN moved * KING ELSE moved
               /\ pos[src] = b.pos[tg] /\ pos[src] = EMPTY
               /\ \A sq \in Range(PushedMove.captured_list) : pos[sq] = EMPTY
               /\ \A sq \in DOMAIN pos \ ({src, tg} \cup Range(PushedMove.captured_list)) :
                      pos[sq] = b.pos[sq]
               /\ DOMAIN pos = DOMAIN b.pos
               /\ stack = Append(b.stack, top)
               /\ top = [PushedMove EXCEPT !.is_promotion = promotes]

\* a white man is pushed onto the first row over two black pieces, onto a stack holding a move
C14_Witness ==
    /\ variant = "draughts" /\ last.op = "push"
    /\ Len(PushedMove.captured_list) = 2
    /\ last.before.pos[Src(PushedMove)] = WHITE_MAN
    /\ pos[Tg(PushedMove)] = WHITE_MAN * KING
    /\ Len(last.before.stack) = 1

(***************************************************************************)
(* Claims about construction (specification SpecCtor)                      *)
(***************************************************************************)
\* C6: construction from a buffer succeeds exactly when an integer n with n*n = 2*length
\* exists; the board then has shape (n, n), an empty stack and the buffer's contents;
\* for every other length the constructor raises and no board exists.
C6_Geometry ==
    last.op = "init"
        => LET len == BufferLen(last.arg)
               sides == {n \in 0..(2 * len) : n * n = 2 * len}
           IN  IF sides # {}
               THEN /\ ~last.raised /\ built
                    /\ shape \in sides
                    /\ stack = <<>>
                    /\ pos = last.arg
               ELSE last.raised /\ ~built

\* a buffer of length 32 has been accepted and the board is 8 x 8
C6_Witness ==
    /\ last.op = "init" /\ ~last.raised /\ built
    /\ BufferLen(last.arg) = 32
    /\ shape = 8

\* a buffer of length 17 has been rejected
C6_Rejected ==
    /\ last.op = "init" /\ last.raised /\ ~built
    /\ BufferLen(last.arg) = 17

(***************************************************************************)
(* Claims about the notation codec (specification SpecFen)                 *)
(***************************************************************************)
BothColours(p) == Own(p, WHITE) # {} /\ Own(p, BLACK) # {}

\* the notation tokens of one colour's pieces, ascending: square number, K before a king's
RECURSIVE ColourTokens(_, _, _)
ColourTokens(p, sq, colour) ==
    IF sq >= Cardinality(DOMAIN p) THEN <<>>
    ELSE (IF Sign(p[sq]) = colour
          THEN <<(IF p[sq] = colour * KING THEN <<"K">> ELSE <<>>) \o Str(sq + 1)>>
          ELSE <<>>) \o ColourTokens(p, sq + 1, colour)

\* the numbers written in a string: the values of its maximal runs of digits
NumbersIn(s) ==
    {IntOf(SubSeq(s, i, RunEnd(s, i, Range(DigitChars)))) :
        i \in {j \in DOMAIN s : IsDigit(s[j]) /\ (j = 1 \/ ~IsDigit(s[j - 1]))}}

\* C7: notation round trip.  Decoding the string the encoder produced for a position in which
\* both colours have pieces yields a board with the same buffer, cell for cell, and the same
\* side to move.
C7_NotationRoundTrip ==
    (last.op = "from_fen" /\ last.paired /\ BothColours(last.before.pos))
        => /\ ~last.raised
           /\ pos = last.before.pos
           /\ turn = last.before.turn

\* C8: the encoded string has the fields turn, prefix, W list, B list in this order, and its
\* first field, right after the opening [FEN ", is W with white to move and B with black to move.
C8_TurnFirst ==
    last.op = "fen"
        => LET fields == SplitOn(text, ":")
           IN  /\ Len(fields) = 4
               /\ fields[1] = <<"[", "F", "E", "N", " ", "\"", IF turn = WHITE THEN "W" ELSE "B">>
               /\ Head(fields[3]) = "W"
               /\ Head(fields[4]) = "B"

\* C9: in the encoded string the W segment lists exactly the squares holding white pieces
\* (+1, +K) and the B segment exactly those holding black pieces (-1, -K): index + 1,
\* ascending, comma-joined, K before a king; no pieces, empty segment.
C9_Segments ==
    last.op = "fen"
        => LET fields == SplitOn(text, ":")
           IN  /\ Len(fields) = 4
               /\ fields[3] = <<"W">> \o Join(ColourTokens(pos, 0, WHITE))
               /\ fields[4] = <<"B">> \o Join(ColourTokens(pos, 0, BLACK)) \o <<"\"", "]">>

\* C10: decoding a string that lists a square number outside 1..bufferLength raises and
\* returns no board.
C10_OutOfRange ==
    (last.op = "from_fen" /\ NumbersIn(last.arg) \ BoardRange(DefaultStartingPosition) # {})
        => last.raised /\ ~built

\* pieces of exactly one colour
SingleColour(p) == (Own(p, WHITE) = {}) # (Own(p, BLACK) = {})

\* C18: a position that holds pieces of one colour only round-trips: the encoder writes one
\* of the two segments empty, and decoding that string succeeds with the same buffer and the
\* same side to move; decoding the encoder's string fails only for a position with no piece
C18_SingleColour ==
    /\ (last.op = "fen" /\ SingleColour(pos))
           => LET fields == SplitOn(text, ":")
              IN  /\ Len(fields) = 4
                  /\ (fields[3] = <<"W">>) # (fields[4] = <<"B", "\"", "]">>)
    /\ (last.op = "from_fen" /\ last.paired /\ SingleColour(last.before.pos))
           => /\ ~last.raised
              /\ pos = last.before.pos
              /\ turn = last.before.turn
    /\ (last.op = "from_fen" /\ last.paired /\ last.raised)
           => \A sq \in DOMAIN last.before.pos : last.before.pos[sq] = EMPTY

(***************************************************************************)
(* Claims about the class attributes (specification SpecShared)            *)
(***************************************************************************)
\* C17: decoding leaves the shared state alone: after from_fen calls the class still declares
\* the standard starting position and white as the starting colour, so a board constructed
\* from a raw buffer afterwards holds that buffer with white to move, whatever turn tokens
\* were decoded before
C17_DecodePure ==
    /\ last.op = "from_fen"
           => /\ STARTING_POSITION = DefaultStartingPosition
              /\ STARTING_COLOR = WHITE
    /\ last.op = "init"
           => /\ pos = last.arg
              /\ turn = WHITE

\* a board constructed from the raw starting buffer after a decode has black to move
C17_RawBlack ==
    /\ last.op = "init" /\ built
    /\ pos = DefaultStartingPosition
    /\ turn = BLACK

(***************************************************************************)
(* Claims about the termination queries (specification SpecRep)            *)
(***************************************************************************)
\* the square list of the k-th move from the top of the stack (1 is the top)
FromTop(k) == stack[Len(stack) + 1 - k].square_list

\* C11: is_threefold_repetition answers TRUE exactly when the stack it is asked about holds
\* nine or more moves and the last, the fifth from last and the ninth from last of them have
\* one and the same square list; it answers FALSE on a shorter stack and when any of the
\* three differs
C11_Threefold ==
    last.op = "is_threefold_repetition"
        => /\ stack = last.before.stack
           /\ last.value <=> (Len(stack) >= 9 /\ Cardinality({FromTop(1), FromTop(5), FromTop(9)}) = 1)
           /\ (Len(stack) < 9) => ~last.value

\* the query answers TRUE on a stack of nine moves whose first, fifth and ninth are one move
C11_Witness ==
    /\ last.op = "is_threefold_repetition" /\ last.value
    /\ Len(stack) >= 9
    /\ FromTop(1) = FromTop(5) /\ FromTop(5) = FromTop(9)

\* the query answers FALSE on nine moves whose last and fifth from last agree but whose ninth
\* from last differs
C11_Differs ==
    /\ last.op = "is_threefold_repetition" /\ ~last.value
    /\ Len(stack) >= 9
    /\ FromTop(1) = FromTop(5) /\ FromTop(5) # FromTop(9)

C13_NoMoves ==
    /\ last.op = "game_over" /\ last.value /\ ~last.arg
    /\ turn = BLACK /\ Own(pos, BLACK) = {}
    /\ stack # <<>>

(***************************************************************************)
(* Claims about records pushed again (specification SpecKept)              *)
(***************************************************************************)
\* C15: a pop that directly undoes a push gives the origin back the very piece that stood
\* there before that push: the destination is divided by K only if that push multiplied it,
\* so a king, or a man that was not promoted, is never changed in kind, also when the
\* record's is_promotion was already True before the push
C15_UndoKeepsKind ==
    [][(last.op = "push" /\ ~last.raised /\ last'.op = "pop" /\ ~last'.raised)
          => pos'[Src(last'.ret)] = last.before.pos[Src(last.move)]]_vars

\* a record that promoted a man, was popped and kept, has been pushed again for a king
C15_Witness ==
    /\ last.op = "push" /\ PushedMove.is_promotion
    /\ last.before.pos[Src(PushedMove)] = WHITE_MAN * KING
    /\ pos[Tg(PushedMove)] = WHITE_MAN * KING

(***************************************************************************)
(* Claims about calls that raise (specification SpecRaise)                 *)
(***************************************************************************)
\* C16: a push or pop that raises leaves the buffer, the stack and the side to move exactly
\* as they were before the call, so the buffer is never updated for a move that is not on
\* the stack
C16_Atomic ==
    (last.op \in {"push", "pop"} /\ last.raised)
        => /\ pos = last.before.pos
           /\ stack = last.before.stack
           /\ turn = last.before.turn

(***************************************************************************)
(* Claims about the move stack as a log (specification SpecLog)            *)
(***************************************************************************)
\* C19: the stack is a last-in-first-out log.  A push appends exactly one record, the move
\* pushed, to the stack as it was; a pop removes exactly the last record and returns it, so
\* records come back in the reverse of the order they went in; the stack is as long as the
\* completed pushes less the completed pops; and fen, the termination queries, the display
\* and a pop that raises leave the stack as it was
C19_Lifo ==
    /\ Len(stack) = last.net
    /\ (last.op = "push" /\ ~last.raised)
           => /\ Len(stack) = Len(last.before.stack) + 1
              /\ SubSeq(stack, 1, Len(stack) - 1) = last.before.stack
              /\ stack[Len(stack)].square_list = PushedMove.square_list
              /\ stack[Len(stack)].captured_list = PushedMove.captured_list
    /\ (last.op = "pop" /\ ~last.raised)
           => /\ last.before.stack = Append(stack, PoppedMove)
    /\ (last.op \notin {"push", "pop", "init"} \/ last.raised)
           => stack = last.before.stack

\* of two different moves on the stack a pop returned the one pushed last and left the other
C19_Witness ==
    /\ last.op = "pop" /\ ~last.raised
    /\ Len(last.before.stack) = 2 /\ Len(stack) = 1
    /\ PoppedMove = last.before.stack[2]
    /\ PoppedMove.square_list # stack[1].square_list
    /\ last.net = 1

\* the encoder was called on a board with two moves on its stack
C19_Read ==
    /\ last.op = "fen" /\ Len(stack) = 2 /\ text # <<>>

(***************************************************************************)
(* Claims about buffer ownership (specification SpecOwn)                   *)
(***************************************************************************)
\* C20: a board holds a private copy of the starting position it was constructed from: it
\* starts with the caller's cells, and no push or pop on it changes the caller's array or the
\* position of another board constructed from the same array
C20_Ownership ==
    [][/\ last'.op = "init" => (pos' = caller /\ peer' = caller /\ caller' = caller)
       /\ last'.op \in {"push", "pop"} => (caller' = caller /\ peer' = peer)]_vars

\* after two pushes, one of them a capture, the board differs from the caller's array in the
\* captured square, and the other board still holds the caller's cells
C20_Witness ==
    /\ built /\ last.op = "push" /\ Len(stack) = 2
    /\ PushedMove.captured_list # <<>>
    /\ \E sq \in Range(PushedMove.captured_list) : pos[sq] # caller[sq]
    /\ peer = caller
    /\ caller \in StartBuffers

====
